---- MODULE Spec2Model ----
(***************************************************************************)
(* Model of lar_content::VertexSelectionAlgorithm                          *)
(* (src/src/LArVertex/VertexSelectionAlgorithm.cc).                        *)
(*                                                                         *)
(* Positions lie on an integer grid.  A float magnitude is carried as its  *)
(* square, so "magnitude < t" is "magSq < t*t" for t > 0.  A histogram     *)
(* weight or a score is carried as an integer multiple of 1/WeightScale    *)
(* (resp. 1/WeightScale^2); the float +infinity is the value Inf, which    *)
(* absorbs sums and squares.  With the default 200 bins over +-1.1*pi, two *)
(* grid displacements fall in the same phi bin exactly when they point in  *)
(* the same direction, so a bin is named by its reduced direction.         *)
(***************************************************************************)
EXTENDS Integers, Sequences, FiniteSets, TLC

\* ------------------------------------------------------------------ bounds
MaxCoord == 2
MaxVertices == 3
MaxHits == 2
MaxClusters == 2

\* ---------------------------------------------------------- float stand-ins
\* std::numeric_limits<float>::max(), the default m_maxHitVertexDisplacement
FloatMax == 1000
\* +infinity, the value of std::pow(0.f, negative power)
Inf == 2000000000
\* denominator of m_minCandidateScoreFraction (0.9f is 9/10)
FracDen == 10

Views == {"U", "V", "W"}

VARIABLES
    \* configuration (member fields)
    m_replaceCurrentVertexList, m_maxHitVertexDisplacement, m_maxOnHitDisplacement,
    m_hitDeweightingPower, m_maxTopScoreCandidates, m_minCandidateDisplacement,
    m_minCandidateScoreFraction,
    \* framework content
    currentListOk, pInputVertexList, clusterListOk, clusterLists,
    \* Run()
    pc, status, vIter, scanLog, vertexScoreList, nVerticesConsidered, sIter,
    selectedVertexScoreList, walkLog, savedLists, replaceCalls,
    \* FillHistogram(pVertex, hitType, clusterListName, histogram)
    fhPc, fhHitType, fhIter, isVertexOnHit, histogram, fillLog

config == <<m_replaceCurrentVertexList, m_maxHitVertexDisplacement, m_maxOnHitDisplacement,
    m_hitDeweightingPower, m_maxTopScoreCandidates, m_minCandidateDisplacement,
    m_minCandidateScoreFraction>>
content == <<currentListOk, pInputVertexList, clusterListOk, clusterLists>>
runVars == <<pc, status, vIter, scanLog, vertexScoreList, nVerticesConsidered, sIter,
    selectedVertexScoreList, walkLog, savedLists, replaceCalls>>
fhVars == <<fhPc, fhHitType, fhIter, isVertexOnHit, histogram, fillLog>>
vars == <<config, content, runVars, fhVars>>

\* ------------------------------------------------------------- arithmetic
Abs(n) == IF n < 0 THEN -n ELSE n

RECURSIVE GCD(_, _)
GCD(a, b) == IF b = 0 THEN a ELSE GCD(b, a % b)

RECURSIVE LCMOf(_)
LCMOf(S) ==
    IF S = {} THEN 1
    ELSE LET n == CHOOSE n \in S : TRUE
             r == LCMOf(S \ {n})
         IN (n * r) \div GCD(n, r)

\* squared magnitudes a hit-to-vertex displacement can take on the grid
MagSqValues == {dx * dx + dz * dz : dx \in 0..MaxCoord, dz \in 0..1} \ {0}
WeightScale == LCMOf(MagSqValues)

\* a + b on floats in [0, +inf]
FAdd(a, b) == IF a = Inf \/ b = Inf THEN Inf ELSE a + b
\* a * a on floats in [0, +inf]
FSquare(a) == IF a = Inf THEN Inf ELSE a * a

\* CartesianVector::GetMagnitude, squared, of a 2D displacement <<dx, dz>>
GetMagnitudeSq2D(d) == d[1] * d[1] + d[2] * d[2]
\* CartesianVector::GetMagnitude, squared, of (a - b) in 3D
GetMagnitudeSq3D(a, b) ==
    (a[1] - b[1]) * (a[1] - b[1]) + (a[2] - b[2]) * (a[2] - b[2]) + (a[3] - b[3]) * (a[3] - b[3])

\* magnitude < t and magnitude > t, for a magnitude given by its square
MagLess(magSq, t) == t > 0 /\ magSq < t * t
MagGreater(magSq, t) == t < 0 \/ magSq > t * t

\* LArGeometryHelper::ProjectPosition: the 2D position <<x, z'>> of a 3D point in a view
ProjectPosition(position, hitType) ==
    CASE hitType = "U" -> <<position[1], position[3] + position[2]>>
      [] hitType = "V" -> <<position[1], position[3] - position[2]>>
      [] OTHER -> <<position[1], position[3]>>

\* std::atan2(dz, dx) reduced to the phi bin it falls in; atan2(0, 0) = 0 is the bin of +x
PhiBin(d) ==
    IF d[1] = 0 /\ d[2] = 0 THEN <<1, 0>>
    ELSE LET g == GCD(Abs(d[1]), Abs(d[2])) IN <<d[1] \div g, d[2] \div g>>

PhiBins == {PhiBin(<<dx, dz>>) : dx \in (0 - MaxCoord)..MaxCoord, dz \in (0 - 1)..1}

\* Histogram(m_histogramNPhiBins, m_histogramPhiMin, m_histogramPhiMax): all bins empty
EmptyHistogram == [b \in PhiBins |-> 0]

\* Histogram::Fill(phi, weight)
Fill(h, bin, weight) == [h EXCEPT ![bin] = FAdd(@, weight)]

\* std::pow(magnitude, m_hitDeweightingPower), in units of 1/WeightScale
Pow(magSq, power) ==
    CASE power = 0 -> WeightScale
      [] power = -2 -> IF magSq = 0 THEN Inf ELSE WeightScale \div magSq
      [] OTHER -> magSq * WeightScale

\* ------------------------------------------------ FillHistogram (per cluster)
\* line 137: magnitude > m_maxHitVertexDisplacement, the hit is skipped
IsBeyondMaxDisplacement(magSq) == MagGreater(magSq, m_maxHitVertexDisplacement)

\* line 140 with <= in place of <
IsOnHitInclusive(magSq) == magSq <= m_maxOnHitDisplacement * m_maxOnHitDisplacement
\* line 140: magnitude < m_maxOnHitDisplacement
IsOnHit(magSq) == MagLess(magSq, m_maxOnHitDisplacement)

\* body of the loop over the hits of a cluster, lines 132-144
FillHit(vertexPosition2D, hitPosition, acc) ==
    LET displacement == <<hitPosition[1] - vertexPosition2D[1], hitPosition[2] - vertexPosition2D[2]>>
        magSq == GetMagnitudeSq2D(displacement)
    IN  IF IsBeyondMaxDisplacement(magSq) THEN acc
        ELSE [isVertexOnHit |-> acc.isVertexOnHit \/ IsOnHit(magSq),
              histogram |-> Fill(acc.histogram, PhiBin(displacement), Pow(magSq, m_hitDeweightingPower)),
              filled |-> acc.filled \cup {magSq}]

RECURSIVE FillHits(_, _, _)
FillHits(vertexPosition2D, hits, acc) ==
    IF hits = <<>> THEN acc
    ELSE FillHits(vertexPosition2D, Tail(hits), FillHit(vertexPosition2D, Head(hits), acc))

\* FillHistogram(vertexPosition2D, pCluster, histogram): the on-hit flag of this cluster, the
\* histogram after it, and the squared magnitudes that reached histogram.Fill
FillHistogramCluster(vertexPosition2D, pCluster, h) ==
    FillHits(vertexPosition2D, pCluster.hits, [isVertexOnHit |-> FALSE, histogram |-> h, filled |-> {}])

\* ------------------------------------------------- FillHistogram (per view)
\* line 111 with the view check left out
HitTypeNeverMismatch(hitType, clusterHitType) == FALSE
\* line 111: hitType != clusterHitType
HitTypeMismatch(hitType, clusterHitType) == hitType # clusterHitType

\* one pass of the loop over the clusters, lines 108-115; exception # "" when it throws
ScanCluster(position, hitType, pCluster, acc) ==
    IF HitTypeMismatch(hitType, pCluster.hitType)
    THEN [acc EXCEPT !.exception = "STATUS_CODE_INVALID_PARAMETER"]
    ELSE LET r == FillHistogramCluster(ProjectPosition(position, hitType), pCluster, acc.histogram)
         IN  [exception |-> "",
              isVertexOnHit |-> acc.isVertexOnHit \/ r.isVertexOnHit,
              histogram |-> r.histogram,
              filled |-> acc.filled \cup r.filled]

RECURSIVE ScanClusters(_, _, _, _)
ScanClusters(position, hitType, clusters, acc) ==
    IF clusters = <<>> \/ acc.exception # "" THEN acc
    ELSE ScanClusters(position, hitType, Tail(clusters), ScanCluster(position, hitType, Head(clusters), acc))

ScanStart(h) == [exception |-> "", isVertexOnHit |-> FALSE, histogram |-> h, filled |-> {}]

\* FillHistogram(pVertex, hitType, clusterListName, histogram), lines 99-119
FillHistogramView(position, hitType, h) ==
    IF ~clusterListOk[hitType]
    THEN [ScanStart(h) EXCEPT !.exception = "STATUS_CODE_NOT_FOUND"]
    ELSE ScanClusters(position, hitType, clusterLists[hitType], ScanStart(h))

\* --------------------------------------------------------- GetFigureOfMerit
RECURSIVE SumSquaredEntries(_, _)
SumSquaredEntries(h, bins) ==
    IF bins = {} THEN 0
    ELSE LET b == CHOOSE b \in bins : TRUE
         IN  FAdd(FSquare(h[b]), SumSquaredEntries(h, bins \ {b}))

\* GetFigureOfMerit(histogram), lines 165-176
GetFigureOfMerit1(h) == SumSquaredEntries(h, DOMAIN h)

\* GetFigureOfMerit(histogramU, histogramV, histogramW), lines 153-161
GetFigureOfMerit(histogramU, histogramV, histogramW) ==
    FAdd(FAdd(GetFigureOfMerit1(histogramU), GetFigureOfMerit1(histogramV)), GetFigureOfMerit1(histogramW))

\* ------------------------------------------------------------------ inputs
\* hits of a view lie on its x axis
HitPositions == {<<x, 0>> : x \in 0..MaxCoord}

RECURSIVE SortedSeq(_)
SortedSeq(S) ==
    IF S = {} THEN <<>>
    ELSE LET m == CHOOSE m \in S : \A o \in S : m[1] <= o[1]
         IN  <<m>> \o SortedSeq(S \ {m})

\* the hit lists a cluster can hold: one to MaxHits distinct hits
HitLists == {SortedSeq(S) : S \in {T \in SUBSET HitPositions : Cardinality(T) \in 1..MaxHits}}

OtherView(view) == CASE view = "U" -> "V" [] view = "V" -> "W" [] OTHER -> "U"

\* the clusters a list fetched for `view` can hold: of that view, or one of another view
ClustersFor(view) ==
    {[hitType |-> view, hits |-> hl] : hl \in HitLists}
        \cup {[hitType |-> OtherView(view), hits |-> <<(<<0, 0>>)>>]}

ClusterListsFor(view) == UNION {[1..n -> ClustersFor(view)] : n \in 0..MaxClusters}

DefaultConfig ==
    /\ m_replaceCurrentVertexList = TRUE
    /\ m_maxHitVertexDisplacement = FloatMax
    /\ m_maxOnHitDisplacement = 1
    /\ m_hitDeweightingPower = -2
    /\ m_maxTopScoreCandidates = 5
    /\ m_minCandidateDisplacement = 2
    /\ m_minCandidateScoreFraction = 9

RunIdle ==
    /\ pc = "idle" /\ status = "" /\ vIter = 0 /\ scanLog = <<>> /\ vertexScoreList = <<>>
    /\ nVerticesConsidered = 0 /\ sIter = 0 /\ selectedVertexScoreList = <<>>
    /\ walkLog = <<>> /\ savedLists = <<>> /\ replaceCalls = 0

FhIdle(p) ==
    /\ fhPc = p /\ fhIter = 0 /\ isVertexOnHit = FALSE
    /\ histogram = EmptyHistogram /\ fillLog = {}

\* ------------------------------- FillHistogram(pVertex, hitType, name, histogram)
\* one call of FillHistogram on one vertex and one view, cluster by cluster
InitScan ==
    /\ m_replaceCurrentVertexList = TRUE
    /\ m_maxHitVertexDisplacement \in {1, FloatMax}
    /\ m_maxOnHitDisplacement \in {1, 2}
    /\ m_hitDeweightingPower \in {-2, 0}
    /\ m_maxTopScoreCandidates = 5
    /\ m_minCandidateDisplacement = 2
    /\ m_minCandidateScoreFraction = 9
    /\ currentListOk = TRUE
    /\ pInputVertexList \in {<<(<<x, y, 0>>)>> : x \in 0..1, y \in 0..1}
    /\ fhHitType \in Views
    /\ \E ok \in BOOLEAN : \E cl \in ClusterListsFor(fhHitType) :
        /\ (~ok => cl = <<>>)
        /\ clusterListOk = [v \in Views |-> IF v = fhHitType THEN ok ELSE TRUE]
        /\ clusterLists = [v \in Views |-> IF v = fhHitType THEN cl ELSE <<>>]
    /\ RunIdle
    /\ FhIdle("entry")

\* line 104: GetList fails, PANDORA_THROW_RESULT_IF throws
FhGetListFail ==
    /\ fhPc = "entry" /\ ~clusterListOk[fhHitType]
    /\ fhPc' = "threw" /\ status' = "STATUS_CODE_NOT_FOUND"
    /\ UNCHANGED <<config, content, pc, vIter, scanLog, vertexScoreList, nVerticesConsidered, sIter,
                   selectedVertexScoreList, walkLog, savedLists, replaceCalls,
                   fhHitType, fhIter, isVertexOnHit, histogram, fillLog>>

\* line 104: GetList succeeds
FhGetListOk ==
    /\ fhPc = "entry" /\ clusterListOk[fhHitType]
    /\ fhPc' = "loop" /\ fhIter' = 1
    /\ UNCHANGED <<config, content, runVars, fhHitType, isVertexOnHit, histogram, fillLog>>

FhStep ==
    ScanCluster(pInputVertexList[1], fhHitType, clusterLists[fhHitType][fhIter],
        [exception |-> "", isVertexOnHit |-> isVertexOnHit, histogram |-> histogram, filled |-> fillLog])

\* lines 111-112: a cluster of another view, throw STATUS_CODE_INVALID_PARAMETER
FhThrowInvalid ==
    /\ fhPc = "loop" /\ fhIter <= Len(clusterLists[fhHitType])
    /\ FhStep.exception # ""
    /\ fhPc' = "threw" /\ status' = FhStep.exception
    /\ UNCHANGED <<config, content, pc, vIter, scanLog, vertexScoreList, nVerticesConsidered, sIter,
                   selectedVertexScoreList, walkLog, savedLists, replaceCalls,
                   fhHitType, fhIter, isVertexOnHit, histogram, fillLog>>

\* lines 114-115: project the vertex and scan the hits of the cluster
FhScanCluster ==
    /\ fhPc = "loop" /\ fhIter <= Len(clusterLists[fhHitType])
    /\ FhStep.exception = ""
    /\ isVertexOnHit' = FhStep.isVertexOnHit
    /\ histogram' = FhStep.histogram
    /\ fillLog' = FhStep.filled
    /\ fhIter' = fhIter + 1
    /\ UNCHANGED <<config, content, runVars, fhPc, fhHitType>>

\* line 118: return isVertexOnHit
FhReturn ==
    /\ fhPc = "loop" /\ fhIter > Len(clusterLists[fhHitType])
    /\ fhPc' = "returned"
    /\ UNCHANGED <<config, content, runVars, fhHitType, fhIter, isVertexOnHit, histogram, fillLog>>

NextScan == FhGetListFail \/ FhGetListOk \/ FhThrowInvalid \/ FhScanCluster \/ FhReturn

SpecScan == InitScan /\ [][NextScan]_vars

\* ------------------------------------------------------------------- Run()
\* candidate vertices lie at distinct points of the x axis
VertexLists ==
    {vl \in UNION {[1..n -> {<<x, 0, 0>> : x \in 0..MaxCoord}] : n \in 0..MaxVertices} :
        \A i \in 1..(Len(vl) - 1) : vl[i][1] < vl[i + 1][1]}

Cluster(view, xs) == [hitType |-> view, hits |-> [i \in 1..Len(xs) |-> <<xs[i], 0>>]]

\* cluster lists of a view whose fetch and scan succeed
GoodListsFor(view) ==
    {<<Cluster(view, <<1>>)>>, <<Cluster(view, <<0>>)>>, <<Cluster(view, <<0>>), Cluster(view, <<2>>)>>}

\* cluster lists of a view that hold a cluster of another view
BadListsFor(view) ==
    {<<Cluster(OtherView(view), <<0>>)>>, <<Cluster(view, <<1>>), Cluster(OtherView(view), <<0>>)>>}

\* GetCurrentList finds no vertex list
InitInputAbsent ==
    /\ DefaultConfig
    /\ currentListOk = FALSE
    /\ pInputVertexList = <<>>
    /\ clusterListOk = [v \in Views |-> TRUE]
    /\ clusterLists \in [Views -> {<<>>}]

\* a cluster list is missing or holds a cluster of the wrong view
InitFaulty ==
    /\ DefaultConfig
    /\ currentListOk = TRUE
    /\ pInputVertexList \in VertexLists
    /\ clusterListOk \in [Views -> BOOLEAN]
    /\ \E cl \in [Views -> BOOLEAN] :
        /\ \E v \in Views : ~clusterListOk[v] \/ cl[v]
        /\ \A v \in Views : ~(~clusterListOk[v] /\ cl[v])
        /\ clusterLists \in {f \in [Views -> UNION {GoodListsFor(v) \cup BadListsFor(v) : v \in Views} \cup {<<>>}] :
              \A v \in Views :
                  IF ~clusterListOk[v] THEN f[v] = <<>>
                  ELSE IF cl[v] THEN f[v] \in BadListsFor(v)
                  ELSE f[v] = <<Cluster(v, <<1>>)>>}

\* every list is there and every cluster is of its view
InitNominal ==
    /\ m_replaceCurrentVertexList \in BOOLEAN
    /\ m_maxHitVertexDisplacement = FloatMax
    /\ m_maxOnHitDisplacement = 2
    /\ m_hitDeweightingPower \in {-2, 0}
    /\ m_maxTopScoreCandidates \in {0, 1, 5}
    /\ m_minCandidateDisplacement \in {1, 2}
    /\ m_minCandidateScoreFraction \in {0, 5, 10, 15}
    /\ currentListOk = TRUE
    /\ pInputVertexList \in VertexLists
    /\ clusterListOk = [v \in Views |-> TRUE]
    /\ clusterLists \in {f \in [Views -> UNION {GoodListsFor(v) : v \in Views}] :
          \A v \in Views : f[v] \in GoodListsFor(v)}

Init ==
    /\ (InitInputAbsent \/ InitFaulty \/ InitNominal)
    /\ pc = "start" /\ status = "" /\ vIter = 0 /\ scanLog = <<>> /\ vertexScoreList = <<>>
    /\ nVerticesConsidered = 0 /\ sIter = 0 /\ selectedVertexScoreList = <<>>
    /\ walkLog = <<>> /\ savedLists = <<>> /\ replaceCalls = 0
    /\ fhHitType = "U"
    /\ FhIdle("idle")

\* line 40: GetCurrentList fails, Run returns its status
GetCurrentListFail ==
    /\ pc = "start" /\ ~currentListOk
    /\ pc' = "done" /\ status' = "STATUS_CODE_NOT_INITIALIZED"
    /\ UNCHANGED <<config, content, fhVars, vIter, scanLog, vertexScoreList, nVerticesConsidered, sIter,
                   selectedVertexScoreList, walkLog, savedLists, replaceCalls>>

\* line 40: GetCurrentList succeeds
GetCurrentListOk ==
    /\ pc = "start" /\ currentListOk
    /\ pc' = "scan" /\ vIter' = 1
    /\ UNCHANGED <<config, content, fhVars, status, scanLog, vertexScoreList, nVerticesConsidered, sIter,
                   selectedVertexScoreList, walkLog, savedLists, replaceCalls>>

\* lines 48-54: the three scans of the vertex at vIter
ScanU == FillHistogramView(pInputVertexList[vIter], "U", EmptyHistogram)
ScanV == FillHistogramView(pInputVertexList[vIter], "V", EmptyHistogram)
ScanW == FillHistogramView(pInputVertexList[vIter], "W", EmptyHistogram)

\* the exception that leaves the three scans, "" when none does
ScanException ==
    IF ScanU.exception # "" THEN ScanU.exception
    ELSE IF ScanV.exception # "" THEN ScanV.exception
    ELSE ScanW.exception

\* line 56 with the three flags combined the other way round
AnyOnHit(u, v, w) == u \/ v \/ w
\* line 56, negated: the vertex is on a hit in U, V and W
AllOnHit(u, v, w) == u /\ v /\ w

\* lines 52-54: a scan throws and the exception leaves Run
ScanThrow ==
    /\ pc = "scan" /\ vIter <= Len(pInputVertexList)
    /\ ScanException # ""
    /\ pc' = "done" /\ status' = ScanException
    /\ UNCHANGED <<config, content, fhVars, vIter, scanLog, vertexScoreList, nVerticesConsidered, sIter,
                   selectedVertexScoreList, walkLog, savedLists, replaceCalls>>

\* lines 56-57: not on a hit in every view, continue
ScanSkip ==
    /\ pc = "scan" /\ vIter <= Len(pInputVertexList)
    /\ ScanException = ""
    /\ ~AllOnHit(ScanU.isVertexOnHit, ScanV.isVertexOnHit, ScanW.isVertexOnHit)
    /\ scanLog' = Append(scanLog, [U |-> ScanU.isVertexOnHit, V |-> ScanV.isVertexOnHit, W |-> ScanW.isVertexOnHit])
    /\ vIter' = vIter + 1
    /\ UNCHANGED <<config, content, fhVars, pc, status, vertexScoreList, nVerticesConsidered, sIter,
                   selectedVertexScoreList, walkLog, savedLists, replaceCalls>>

\* lines 59-60: score the vertex and push it
ScanScore ==
    /\ pc = "scan" /\ vIter <= Len(pInputVertexList)
    /\ ScanException = ""
    /\ AllOnHit(ScanU.isVertexOnHit, ScanV.isVertexOnHit, ScanW.isVertexOnHit)
    /\ scanLog' = Append(scanLog, [U |-> ScanU.isVertexOnHit, V |-> ScanV.isVertexOnHit, W |-> ScanW.isVertexOnHit])
    /\ vertexScoreList' = Append(vertexScoreList,
          [vertex |-> vIter, score |-> GetFigureOfMerit(ScanU.histogram, ScanV.histogram, ScanW.histogram)])
    /\ vIter' = vIter + 1
    /\ UNCHANGED <<config, content, fhVars, pc, status, nVerticesConsidered, sIter,
                   selectedVertexScoreList, walkLog, savedLists, replaceCalls>>

\* VertexScore::operator<: the higher score sorts first
VertexScoreLess(a, b) == a.score > b.score

\* the orders std::sort may leave the list in: a permutation with no element before one it
\* compares greater than
SortedOrders(list) ==
    {p \in [1..Len(list) -> 1..Len(list)] :
        /\ \A i, j \in 1..Len(list) : i # j => p[i] # p[j]
        /\ \A i, j \in 1..Len(list) : i < j => ~VertexScoreLess(list[p[j]], list[p[i]])}

\* line 63: std::sort(vertexScoreList.begin(), vertexScoreList.end())
Sort ==
    /\ pc = "scan" /\ vIter > Len(pInputVertexList)
    /\ \E p \in SortedOrders(vertexScoreList) :
          vertexScoreList' = [i \in 1..Len(vertexScoreList) |-> vertexScoreList[p[i]]]
    /\ pc' = "walk" /\ sIter' = 1
    /\ UNCHANGED <<config, content, fhVars, status, vIter, scanLog, nVerticesConsidered,
                   selectedVertexScoreList, walkLog, savedLists, replaceCalls>>

\* ------------------------------------------------------ the selection walk
\* line 188 with <= in place of <
IsTooCloseInclusive(dSq) == dSq <= m_minCandidateDisplacement * m_minCandidateDisplacement
\* line 188: displacement3D < m_minCandidateDisplacement
IsTooClose(dSq) == MagLess(dSq, m_minCandidateDisplacement)

\* AcceptVertexLocation(pVertex, vertexScoreList), lines 180-193
AcceptVertexLocation(pVertex, list) ==
    \A i \in 1..Len(list) :
        ~IsTooClose(GetMagnitudeSq3D(pInputVertexList[pVertex], pInputVertexList[list[i].vertex]))

\* score < m_minCandidateScoreFraction * other on floats in [0, +inf]: the product with +inf
\* is +inf for a positive fraction, NaN (every comparison false) for 0
\* line 201 with <= in place of <
ScoreIsBelowInclusive(score, other) ==
    IF other = Inf THEN m_minCandidateScoreFraction > 0
    ELSE IF score = Inf THEN FALSE
    ELSE score * FracDen <= m_minCandidateScoreFraction * other
\* line 201: score < m_minCandidateScoreFraction * iter->GetScore()
ScoreIsBelow(score, other) ==
    IF other = Inf THEN m_minCandidateScoreFraction > 0 /\ score # Inf
    ELSE IF score = Inf THEN FALSE
    ELSE score * FracDen < m_minCandidateScoreFraction * other

\* AcceptVertexScore(score, vertexScoreList), lines 197-206
AcceptVertexScore(score, list) ==
    \A i \in 1..Len(list) : ~ScoreIsBelow(score, list[i].score)

\* line 70 with >= in place of >
ReachesMaxCandidates(n) == n >= m_maxTopScoreCandidates
\* line 70: ++nVerticesConsidered > m_maxTopScoreCandidates, n the incremented count
ExceedsMaxCandidates(n) == n > m_maxTopScoreCandidates

InWalk == pc = "walk" /\ sIter <= Len(vertexScoreList)

\* lines 70-71: break
WalkBreak ==
    /\ InWalk
    /\ ExceedsMaxCandidates(nVerticesConsidered + 1)
    /\ nVerticesConsidered' = nVerticesConsidered + 1
    /\ pc' = "emit"
    /\ UNCHANGED <<config, content, fhVars, status, vIter, scanLog, vertexScoreList, sIter,
                   selectedVertexScoreList, walkLog, savedLists, replaceCalls>>

\* lines 73-74: too close to an accepted vertex, continue
WalkRejectLocation ==
    /\ InWalk
    /\ ~ExceedsMaxCandidates(nVerticesConsidered + 1)
    /\ selectedVertexScoreList # <<>>
    /\ ~AcceptVertexLocation(vertexScoreList[sIter].vertex, selectedVertexScoreList)
    /\ nVerticesConsidered' = nVerticesConsidered + 1
    /\ walkLog' = Append(walkLog, [vertex |-> vertexScoreList[sIter].vertex,
                                   score |-> vertexScoreList[sIter].score, decision |-> "location"])
    /\ sIter' = sIter + 1
    /\ UNCHANGED <<config, content, fhVars, pc, status, vIter, scanLog, vertexScoreList,
                   selectedVertexScoreList, savedLists, replaceCalls>>

\* lines 76-77: score too far below an accepted score, continue
WalkRejectScore ==
    /\ InWalk
    /\ ~ExceedsMaxCandidates(nVerticesConsidered + 1)
    /\ selectedVertexScoreList # <<>>
    /\ AcceptVertexLocation(vertexScoreList[sIter].vertex, selectedVertexScoreList)
    /\ ~AcceptVertexScore(vertexScoreList[sIter].score, selectedVertexScoreList)
    /\ nVerticesConsidered' = nVerticesConsidered + 1
    /\ walkLog' = Append(walkLog, [vertex |-> vertexScoreList[sIter].vertex,
                                   score |-> vertexScoreList[sIter].score, decision |-> "score"])
    /\ sIter' = sIter + 1
    /\ UNCHANGED <<config, content, fhVars, pc, status, vIter, scanLog, vertexScoreList,
                   selectedVertexScoreList, savedLists, replaceCalls>>

\* line 79: selectedVertexScoreList.push_back(*iter)
WalkAccept ==
    /\ InWalk
    /\ ~ExceedsMaxCandidates(nVerticesConsidered + 1)
    /\ selectedVertexScoreList # <<>> =>
          /\ AcceptVertexLocation(vertexScoreList[sIter].vertex, selectedVertexScoreList)
          /\ AcceptVertexScore(vertexScoreList[sIter].score, selectedVertexScoreList)
    /\ nVerticesConsidered' = nVerticesConsidered + 1
    /\ selectedVertexScoreList' = Append(selectedVertexScoreList, vertexScoreList[sIter])
    /\ walkLog' = Append(walkLog, [vertex |-> vertexScoreList[sIter].vertex,
                                   score |-> vertexScoreList[sIter].score, decision |-> "accepted"])
    /\ sIter' = sIter + 1
    /\ UNCHANGED <<config, content, fhVars, pc, status, vIter, scanLog, vertexScoreList,
                   savedLists, replaceCalls>>

\* line 68: iter == iterEnd
WalkEnd ==
    /\ pc = "walk" /\ sIter > Len(vertexScoreList)
    /\ pc' = "emit"
    /\ UNCHANGED <<config, content, fhVars, status, vIter, scanLog, vertexScoreList, nVerticesConsidered,
                   sIter, selectedVertexScoreList, walkLog, savedLists, replaceCalls>>

\* ----------------------------------------------------------------- output
\* line 84 taking the last accepted candidate instead
pLastSelectedVertex(list) == selectedVertexScoreList[Len(selectedVertexScoreList)].vertex
\* line 84: vertexScoreList.at(0).GetVertex()
pBestVertex(list) == list[1].vertex

\* lines 85-86 inserting every accepted candidate instead
AllSelectedVertices(pVertex) == {selectedVertexScoreList[i].vertex : i \in 1..Len(selectedVertexScoreList)}
\* lines 85-86: a VertexList holding pBestVertex
selectedVertexList(pVertex) == {pVertex}

\* line 90 with the option ignored
ReplaceAlways == TRUE
\* line 90: if (m_replaceCurrentVertexList)
ReplaceRequested == m_replaceCurrentVertexList

\* line 82 false: nothing selected, return STATUS_CODE_SUCCESS
NoResult ==
    /\ pc = "emit" /\ selectedVertexScoreList = <<>>
    /\ pc' = "done" /\ status' = "STATUS_CODE_SUCCESS"
    /\ UNCHANGED <<config, content, fhVars, vIter, scanLog, vertexScoreList, nVerticesConsidered, sIter,
                   selectedVertexScoreList, walkLog, savedLists, replaceCalls>>

\* lines 84-88: SaveList is called and returns `result`; at(0) throws on an empty list
SaveListCall(result) ==
    /\ pc = "emit" /\ selectedVertexScoreList # <<>>
    /\ IF vertexScoreList = <<>>
       THEN /\ pc' = "done" /\ status' = "std::out_of_range"
            /\ UNCHANGED savedLists
       ELSE /\ savedLists' = Append(savedLists,
                  [list |-> selectedVertexList(pBestVertex(vertexScoreList)), result |-> result])
            /\ IF result # "STATUS_CODE_SUCCESS"
               THEN pc' = "done" /\ status' = result
               ELSE IF ReplaceRequested
                    THEN pc' = "replace" /\ UNCHANGED status
                    ELSE pc' = "done" /\ status' = "STATUS_CODE_SUCCESS"
    /\ UNCHANGED <<config, content, fhVars, vIter, scanLog, vertexScoreList, nVerticesConsidered, sIter,
                   selectedVertexScoreList, walkLog, replaceCalls>>

SaveListOk == SaveListCall("STATUS_CODE_SUCCESS")
SaveListFail == SaveListCall("STATUS_CODE_FAILURE")

\* line 91: ReplaceCurrentList is called and returns `result`
ReplaceCurrentListCall(result) ==
    /\ pc = "replace"
    /\ replaceCalls' = replaceCalls + 1
    /\ pc' = "done" /\ status' = result
    /\ UNCHANGED <<config, content, fhVars, vIter, scanLog, vertexScoreList, nVerticesConsidered, sIter,
                   selectedVertexScoreList, walkLog, savedLists>>

ReplaceCurrentListOk == ReplaceCurrentListCall("STATUS_CODE_SUCCESS")
ReplaceCurrentListFail == ReplaceCurrentListCall("STATUS_CODE_NOT_FOUND")

Next ==
    \/ GetCurrentListFail \/ GetCurrentListOk
    \/ ScanThrow \/ ScanSkip \/ ScanScore \/ Sort
    \/ WalkBreak \/ WalkRejectLocation \/ WalkRejectScore \/ WalkAccept \/ WalkEnd
    \/ NoResult \/ SaveListOk \/ SaveListFail
    \/ ReplaceCurrentListOk \/ ReplaceCurrentListFail

Spec == Init /\ [][Next]_vars

\* ================================================================== claims
Success == "STATUS_CODE_SUCCESS"

\* the candidates the scan found on a hit in U, V and W
OnHitCandidates == {i \in 1..Len(scanLog) : scanLog[i].U /\ scanLog[i].V /\ scanLog[i].W}

\* the vertices handed to SaveList
SavedVertices == UNION {savedLists[i].list : i \in 1..Len(savedLists)}

ScoredVertices == {vertexScoreList[i].vertex : i \in 1..Len(vertexScoreList)}

DistSq(v, w) ==
    (pInputVertexList[v][1] - pInputVertexList[w][1]) * (pInputVertexList[v][1] - pInputVertexList[w][1])
    + (pInputVertexList[v][2] - pInputVertexList[w][2]) * (pInputVertexList[v][2] - pInputVertexList[w][2])
    + (pInputVertexList[v][3] - pInputVertexList[w][3]) * (pInputVertexList[v][3] - pInputVertexList[w][3])

\* walk steps before step k that accepted their candidate
AcceptedBefore(k) == {j \in 1..(k - 1) : walkLog[j].decision = "accepted"}

\* C1: a run passes to SaveList at most one list, and a list passed holds exactly one vertex.
C1_OutputSizeZeroOrOne ==
    /\ Len(savedLists) <= 1
    /\ \A i \in 1..Len(savedLists) : Cardinality(savedLists[i].list) = 1

C1_Witness ==
    /\ pc = "done" /\ Len(savedLists) = 1
    /\ Len(selectedVertexScoreList) >= 2

\* C2: a vertex passed to SaveList is a scored candidate, the scored candidates are those on a
\* hit in all three views, and no scored candidate has a strictly higher score.
C2_OutputIsGlobalMaximum ==
    \A v \in SavedVertices :
        /\ v \in OnHitCandidates
        /\ ScoredVertices = OnHitCandidates
        /\ \E i \in 1..Len(vertexScoreList) :
              /\ vertexScoreList[i].vertex = v
              /\ \A j \in 1..Len(vertexScoreList) : vertexScoreList[j].score <= vertexScoreList[i].score

C2_Witness ==
    /\ pc = "done" /\ status = Success
    /\ \E v \in SavedVertices : v > 1
    /\ Len(selectedVertexScoreList) >= 2
    /\ \E i, j \in 1..Len(vertexScoreList) : vertexScoreList[i].score < vertexScoreList[j].score

\* C3: a candidate whose scan returned on-hit = false in some view is never in the scored
\* list, the accepted set or the output, and an empty candidate list gives no output.
C3_OffHitNeverOutput ==
    /\ ScoredVertices \subseteq OnHitCandidates
    /\ {selectedVertexScoreList[i].vertex : i \in 1..Len(selectedVertexScoreList)} \subseteq OnHitCandidates
    /\ SavedVertices \subseteq OnHitCandidates
    /\ pInputVertexList = <<>> => (vertexScoreList = <<>> /\ savedLists = <<>> /\ replaceCalls = 0)

C3_Witness ==
    /\ pc = "done" /\ savedLists # <<>>
    /\ \E i \in 1..Len(scanLog) :
          /\ i \notin OnHitCandidates
          /\ \E a, b \in Views : scanLog[i][a] /\ ~scanLog[i][b]

\* the vertex list is absent
InputListAbsent == ~currentListOk
\* a cluster list is fetched (there is a candidate to scan) and the fetch fails
ClusterListFetchFails == pInputVertexList # <<>> /\ \E v \in Views : ~clusterListOk[v]
\* a view is scanned (there is a candidate to scan) and its list holds a cluster of another view
ClusterOfOtherView ==
    pInputVertexList # <<>> /\ \E v \in Views : \E k \in 1..Len(clusterLists[v]) : clusterLists[v][k].hitType # v

\* C4: when the vertex list is absent, a fetch of a cluster list fails or a scanned list holds
\* a cluster of another view, the run never gets past the scan, ends with an error status,
\* and calls neither SaveList nor ReplaceCurrentList.
C4_FaultAbortsWithoutOutput ==
    (InputListAbsent \/ ClusterListFetchFails \/ ClusterOfOtherView) =>
        /\ pc \in {"start", "scan", "done"}
        /\ savedLists = <<>> /\ replaceCalls = 0
        /\ pc = "done" => status \in {"STATUS_CODE_NOT_INITIALIZED", "STATUS_CODE_NOT_FOUND", "STATUS_CODE_INVALID_PARAMETER"}

C4_Witness ==
    /\ pc = "done" /\ status = "STATUS_CODE_INVALID_PARAMETER"
    /\ \A v \in Views : clusterListOk[v]
    /\ \A k \in 1..Len(clusterLists["U"]) : clusterLists["U"][k].hitType = "U"
    /\ Len(clusterLists["W"]) = 2 /\ clusterLists["W"][1].hitType = "W"

\* C5: SaveList and ReplaceCurrentList are each called at most once; ReplaceCurrentList is
\* called only with the option set, after SaveList of the one-vertex list returned success,
\* and never when nothing was selected.
C5_SaveThenReplaceOnce ==
    /\ Len(savedLists) <= 1 /\ replaceCalls <= 1
    /\ (pc = "replace" \/ replaceCalls > 0) =>
          /\ m_replaceCurrentVertexList
          /\ selectedVertexScoreList # <<>>
          /\ Len(savedLists) = 1
          /\ savedLists[1].result = Success
          /\ Cardinality(savedLists[1].list) = 1
    /\ (pc = "done" /\ status = Success /\ m_replaceCurrentVertexList /\ savedLists # <<>>) => replaceCalls = 1

C5_Witness ==
    /\ pc = "done" /\ replaceCalls = 1 /\ status = Success

\* C6: no two members of the accepted set are closer than minCandidateDisplacement, and a
\* walk step rejects its candidate for location exactly when some already-accepted candidate
\* is strictly closer than minCandidateDisplacement (a distance equal to it rejects nothing).
C6_SpatialExclusion ==
    /\ \A i, j \in 1..Len(selectedVertexScoreList) :
          i # j => ~(m_minCandidateDisplacement > 0
                     /\ DistSq(selectedVertexScoreList[i].vertex, selectedVertexScoreList[j].vertex)
                            < m_minCandidateDisplacement * m_minCandidateDisplacement)
    /\ \A k \in 1..Len(walkLog) :
          walkLog[k].decision = "location" <=>
              \E j \in AcceptedBefore(k) :
                  /\ m_minCandidateDisplacement > 0
                  /\ DistSq(walkLog[k].vertex, walkLog[j].vertex)
                        < m_minCandidateDisplacement * m_minCandidateDisplacement

C6_Witness ==
    /\ \E i, j \in 1..Len(selectedVertexScoreList) :
          /\ i # j
          /\ DistSq(selectedVertexScoreList[i].vertex, selectedVertexScoreList[j].vertex)
                = m_minCandidateDisplacement * m_minCandidateDisplacement
    /\ \E k \in 1..Len(walkLog) : walkLog[k].decision = "location"

\* a < fraction * b, for scores in [0, +inf] and the configured fraction
StrictlyBelowFraction(a, b) ==
    IF b = Inf THEN m_minCandidateScoreFraction > 0 /\ a # Inf
    ELSE a # Inf /\ FracDen * a < m_minCandidateScoreFraction * b

\* a >= fraction * b, with 0 * inf read as 0
AtLeastFraction(a, b) ==
    IF b = Inf THEN m_minCandidateScoreFraction <= 0 \/ a = Inf
    ELSE a = Inf \/ FracDen * a >= m_minCandidateScoreFraction * b

\* C7 as stated: every member of the accepted set has score >= minCandidateScoreFraction
\* times the best accepted score and times every score accepted before it.
C7_Original ==
    \A i \in 1..Len(selectedVertexScoreList) :
        /\ \A j \in 1..Len(selectedVertexScoreList) :
              (\A k \in 1..Len(selectedVertexScoreList) :
                    selectedVertexScoreList[k].score <= selectedVertexScoreList[j].score)
                 => AtLeastFraction(selectedVertexScoreList[i].score, selectedVertexScoreList[j].score)
        /\ \A j \in 1..(i - 1) :
              AtLeastFraction(selectedVertexScoreList[i].score, selectedVertexScoreList[j].score)

\* C7: no member of the accepted set scores strictly below minCandidateScoreFraction times
\* the score of a member accepted before it; a walk step that rejects for score has an
\* already-accepted candidate whose fraction of score its candidate is strictly below, and a
\* step that accepts has none (a score equal to the threshold is admitted).
C7_ScoreDominance ==
    /\ \A i \in 1..Len(selectedVertexScoreList) : \A j \in 1..(i - 1) :
          ~StrictlyBelowFraction(selectedVertexScoreList[i].score, selectedVertexScoreList[j].score)
    /\ \A k \in 1..Len(walkLog) :
          /\ walkLog[k].decision = "score" =>
                \E j \in AcceptedBefore(k) : StrictlyBelowFraction(walkLog[k].score, walkLog[j].score)
          /\ walkLog[k].decision = "accepted" =>
                \A j \in AcceptedBefore(k) : ~StrictlyBelowFraction(walkLog[k].score, walkLog[j].score)

C7_Witness ==
    /\ Len(selectedVertexScoreList) >= 2
    /\ selectedVertexScoreList[1].score # Inf
    /\ selectedVertexScoreList[2].score < selectedVertexScoreList[1].score
    /\ FracDen * selectedVertexScoreList[2].score
          = m_minCandidateScoreFraction * selectedVertexScoreList[1].score

\* the scanned vertex in the scanned view
fhVertexPosition2D == ProjectPosition(pInputVertexList[1], fhHitType)

\* squared distance from the projected vertex to hit i of cluster k of the scanned list
HitMagSq(k, i) ==
    LET h == clusterLists[fhHitType][k].hits[i]
    IN  (h[1] - fhVertexPosition2D[1]) * (h[1] - fhVertexPosition2D[1])
        + (h[2] - fhVertexPosition2D[2]) * (h[2] - fhVertexPosition2D[2])

\* some hit of cluster k lies strictly within maxOnHitDisplacement of the projected vertex
ClusterHasHitWithin(k) ==
    \E i \in 1..Len(clusterLists[fhHitType][k].hits) :
        m_maxOnHitDisplacement > 0 /\ HitMagSq(k, i) < m_maxOnHitDisplacement * m_maxOnHitDisplacement

\* ... and that hit is not farther than maxHitVertexDisplacement
ClusterHasHitWithinBoth(k) ==
    \E i \in 1..Len(clusterLists[fhHitType][k].hits) :
        /\ m_maxOnHitDisplacement > 0 /\ HitMagSq(k, i) < m_maxOnHitDisplacement * m_maxOnHitDisplacement
        /\ HitMagSq(k, i) <= m_maxHitVertexDisplacement * m_maxHitVertexDisplacement

\* C8 as stated: the scan returns on-hit = true if and only if some hit of some cluster of
\* the view lies strictly within maxOnHitDisplacement of the projected vertex.
C8_Original ==
    fhPc = "returned" =>
        (isVertexOnHit <=> \E k \in 1..Len(clusterLists[fhHitType]) : ClusterHasHitWithin(k))

\* C8: after each cluster, and at the return, on-hit is true if and only if some hit of a
\* cluster scanned so far lies strictly within maxOnHitDisplacement of the projected vertex
\* and not beyond maxHitVertexDisplacement; so a hit at exactly maxOnHitDisplacement does not
\* set it, and once set it stays set.
C8_OnHitIffHitWithin ==
    fhPc \in {"loop", "returned"} =>
        (isVertexOnHit <=> \E k \in 1..(fhIter - 1) : ClusterHasHitWithinBoth(k))

C8_Witness ==
    /\ fhPc = "returned" /\ isVertexOnHit
    /\ Len(clusterLists[fhHitType]) = 2
    /\ ClusterHasHitWithinBoth(1)
    /\ ~ClusterHasHitWithin(2)
    /\ \E i \in 1..Len(clusterLists[fhHitType][2].hits) :
          HitMagSq(2, i) = m_maxOnHitDisplacement * m_maxOnHitDisplacement

\* C9: no hit reaches histogram.Fill with a displacement magnitude of exactly zero.
C9_NoZeroMagnitudeFill == \A magSq \in fillLog : magSq > 0

\* C10: a run that ends without error has an output if and only if some candidate is on a hit
\* in all three views and maxTopScoreCandidates >= 1; the first walk step accepts the first
\* sorted candidate, the output is that candidate whatever minCandidateDisplacement and
\* minCandidateScoreFraction are, and at(0) never throws.
C10_OutputIffScoredAndDepth ==
    /\ (pc = "done" /\ status = Success) =>
          (savedLists # <<>> <=> (OnHitCandidates # {} /\ m_maxTopScoreCandidates >= 1))
    /\ status # "std::out_of_range"
    /\ walkLog # <<>> =>
          /\ walkLog[1].decision = "accepted"
          /\ walkLog[1].vertex = vertexScoreList[1].vertex
          /\ selectedVertexScoreList[1] = vertexScoreList[1]
    /\ selectedVertexScoreList # <<>> => vertexScoreList # <<>>
    /\ \A v \in SavedVertices : v = vertexScoreList[1].vertex

C10_Witness ==
    /\ pc = "done" /\ status = Success /\ savedLists # <<>>
    /\ m_maxTopScoreCandidates = 1
    /\ m_minCandidateScoreFraction > FracDen
    /\ Len(vertexScoreList) >= 2

====
